---- MODULE Spec2Model ----
(***************************************************************************)
(* A model of lab3/database/database.py: the Database registry, the three  *)
(* CSV-backed tables (EmployeeTable, DepartmentTable, EmployeeLeaveTable), *)
(* their insert/select/save/load methods, and Database.join and            *)
(* Database.aggregate.                                                     *)
(*                                                                         *)
(* Text is modelled at character level: a Python str is a sequence of      *)
(* one-character strings, so that str.split, str.upper, int() and the      *)
(* newline translation of a text-mode read are computed, not assumed.      *)
(* Column names, table names and messages, which the code never takes      *)
(* apart, are plain strings.                                               *)
(***************************************************************************)
EXTENDS Integers, Sequences, FiniteSets, TLC

\* Bound of the model: no table grows beyond MaxRows rows.
MaxRows == 2

\* The two line-break characters a field can contain.
CR == "<CR>"
LF == "<LF>"

----------------------------------------------------------------------------
(* Python built-ins used by the code *)

\* str.split(sep): the fields between the separators; "" gives [""].
RECURSIVE split(_, _)
split(s, sep) ==
    IF \A i \in 1..Len(s) : s[i] # sep
    THEN <<s>>
    ELSE LET p == CHOOSE i \in 1..Len(s) :
                     s[i] = sep /\ \A j \in 1..(i - 1) : s[j] # sep
         IN  <<SubSeq(s, 1, p - 1)>> \o split(SubSeq(s, p + 1, Len(s)), sep)

\* dict(zip(keys, values)): pairs up to the shorter length; a later pair
\* with the same key overwrites an earlier one.
zip_dict(keys, values) ==
    LET n == IF Len(keys) < Len(values) THEN Len(keys) ELSE Len(values)
    IN  [k \in {keys[i] : i \in 1..n} |->
            values[CHOOSE i \in 1..n :
                      keys[i] = k /\ \A j \in 1..n : keys[j] = k => j <= i]]

DigitChars == {"0", "1", "2", "3", "4", "5", "6", "7", "8", "9"}

DigitVal(c) ==
    CASE c = "0" -> 0 [] c = "1" -> 1 [] c = "2" -> 2 [] c = "3" -> 3
      [] c = "4" -> 4 [] c = "5" -> 5 [] c = "6" -> 6 [] c = "7" -> 7
      [] c = "8" -> 8 [] c = "9" -> 9

RECURSIVE digits_value(_)
digits_value(s) ==
    IF s = <<>> THEN 0
    ELSE 10 * digits_value(SubSeq(s, 1, Len(s) - 1)) + DigitVal(s[Len(s)])

int_body(s) == IF Len(s) > 0 /\ s[1] \in {"-", "+"} THEN Tail(s) ELSE s

\* int(s) raises ValueError unless s is an optional sign and decimal digits
\* (over the alphabet of the model: no blanks, no underscores).
int_valid(s) ==
    /\ Len(int_body(s)) > 0
    /\ \A i \in 1..Len(int_body(s)) : int_body(s)[i] \in DigitChars

int(s) ==
    IF Len(s) > 0 /\ s[1] = "-"
    THEN 0 - digits_value(int_body(s))
    ELSE digits_value(int_body(s))

\* str.upper() over the letters the model uses.
upper_char(c) ==
    CASE c = "a" -> "A" [] c = "c" -> "C" [] c = "g" -> "G" [] c = "i" -> "I"
      [] c = "m" -> "M" [] c = "n" -> "N" [] c = "o" -> "O" [] c = "s" -> "S"
      [] c = "t" -> "T" [] c = "u" -> "U" [] c = "v" -> "V" [] c = "x" -> "X"
      [] c = "y" -> "Y"
      [] OTHER -> c

upper(s) == [i \in 1..Len(s) |-> upper_char(s[i])]

----------------------------------------------------------------------------
(* Outcomes of a call: the exception raised, if any *)

NoError == [exc |-> "none", msg |-> ""]
ValueError(m) == [exc |-> "ValueError", msg |-> m]
KeyError(k) == [exc |-> "KeyError", msg |-> k]
OSError == [exc |-> "OSError", msg |-> "write failed"]
ZeroDivisionError == [exc |-> "ZeroDivisionError", msg |-> "division by zero"]
TypeError == [exc |-> "TypeError", msg |-> "wrong number of positional arguments"]

MsgNoTable == "table does not exist"
MsgNoField == "table has no such field"
MsgNotAggregate == "not an aggregate function"
MsgCompositeUnique == "('id', 'department_id') must be unique"
MsgIdUnique == "'id' must be unique"
MsgInvalidLiteral == "invalid literal for int()"
MsgEmptySequence == "arg is an empty sequence"
MsgUnpack == "wrong number of values to unpack"

----------------------------------------------------------------------------
(* Tables *)

Kinds == {"Employee", "Department", "EmployeeLeave"}

ATTRS(kind) ==
    CASE kind = "Employee" -> <<"id", "name", "age", "salary", "department_id">>
      [] kind = "Department" -> <<"id", "department_name">>
      [] kind = "EmployeeLeave" -> <<"id", "employee_id", "start_date", "end_date">>

AttrSet(kind) == {ATTRS(kind)[i] : i \in 1..Len(ATTRS(kind))}

\* The file at FILE_PATH: absent, or a header record and the row records.
NoFile == [exists |-> FALSE, header |-> <<>>, rows |-> <<>>]

\* csv.DictWriter.writerows: each row in fieldnames order, "" for a key
\* the row does not have.
row_record(fieldnames, row) ==
    [i \in 1..Len(fieldnames) |->
        IF fieldnames[i] \in DOMAIN row THEN row[fieldnames[i]] ELSE <<>>]

written_file(kind, rows) ==
    [exists |-> TRUE,
     header |-> ATTRS(kind),
     rows   |-> [i \in 1..Len(rows) |-> row_record(ATTRS(kind), rows[i])]]

\* What open(path, "w") leaves when the write after it fails: the file is
\* truncated, and the buffered records never reach it.
EmptyFile == [exists |-> TRUE, header |-> <<>>, rows |-> <<>>]

\* Outcomes of the storage: "ok", "open" (open() raises, the file is left
\* as it was), "write" (the file is opened, the write fails).
IOAll == {"ok", "open", "write"}

\* Variant: the file is opened for appending and only the last row is
\* written.
save_append(kind, rows, f, io) ==
    CASE io = "ok" ->
            [file |-> [exists |-> TRUE,
                       header |-> ATTRS(kind),
                       rows |-> IF rows = <<>> THEN f.rows
                                ELSE Append(f.rows,
                                            row_record(ATTRS(kind), rows[Len(rows)]))],
             err |-> NoError]
      [] io = "open" -> [file |-> f, err |-> OSError]
      [] io = "write" -> [file |-> EmptyFile, err |-> OSError]

\* Table.save: the file after the call, and the exception if any.
save(kind, rows, f, io) ==
    CASE io = "ok" -> [file |-> written_file(kind, rows), err |-> NoError]
      [] io = "open" -> [file |-> f, err |-> OSError]
      [] io = "write" -> [file |-> EmptyFile, err |-> OSError]

\* open(path, "r") without newline="": universal newlines turn a carriage
\* return into a line feed, also inside a quoted field.
universal_newlines(v) == [i \in 1..Len(v) |-> IF v[i] = CR THEN LF ELSE v[i]]

\* Table.load: one dict per record after the header, keyed by the header.
load(f) ==
    IF ~f.exists THEN <<>>
    ELSE [i \in 1..Len(f.rows) |->
            zip_dict(f.header,
                     [j \in 1..Len(f.rows[i]) |-> universal_newlines(f.rows[i][j])])]

\* The loop of DepartmentTable.insert and EmployeeLeaveTable.insert.
id_check(rows, entry) ==
    IF \E i \in 1..Len(rows) : rows[i]["id"] = entry["id"]
    THEN ValueError(MsgIdUnique)
    ELSE NoError

\* The loop of EmployeeTable.insert: the first row with the same id decides.
employee_check(rows, entry) ==
    IF \A i \in 1..Len(rows) : rows[i]["id"] # entry["id"]
    THEN NoError
    ELSE LET r == rows[CHOOSE i \in 1..Len(rows) :
                          /\ rows[i]["id"] = entry["id"]
                          /\ \A j \in 1..(i - 1) : rows[j]["id"] # entry["id"]]
         IN  IF "department_id" \notin DOMAIN r \/ "department_id" \notin DOMAIN entry
             THEN KeyError("department_id")
             ELSE IF r["department_id"] = entry["department_id"]
                  THEN ValueError(MsgCompositeUnique)
                  ELSE ValueError(MsgIdUnique)

\* The tail common to the three insert methods: append, then save.
append_and_save(kind, rows, f, entry, chk, io) ==
    IF chk.exc # "none"
    THEN [rows |-> rows, file |-> f, err |-> chk]
    ELSE LET sv == save(kind, Append(rows, entry), f, io)
         IN  [rows |-> Append(rows, entry), file |-> sv.file, err |-> sv.err]

EmployeeTable_insert(rows, f, text, io) ==
    LET entry == zip_dict(ATTRS("Employee"), split(text, ","))
    IN  append_and_save("Employee", rows, f, entry, employee_check(rows, entry), io)

DepartmentTable_insert(rows, f, text, io) ==
    LET entry == zip_dict(ATTRS("Department"), split(text, ","))
    IN  append_and_save("Department", rows, f, entry, id_check(rows, entry), io)

EmployeeLeaveTable_insert(rows, f, text, io) ==
    LET entry == zip_dict(ATTRS("EmployeeLeave"), split(text, ","))
    IN  append_and_save("EmployeeLeave", rows, f, entry, id_check(rows, entry), io)

Table_insert(kind, rows, f, text, io) ==
    CASE kind = "Employee" -> EmployeeTable_insert(rows, f, text, io)
      [] kind = "Department" -> DepartmentTable_insert(rows, f, text, io)
      [] kind = "EmployeeLeave" -> EmployeeLeaveTable_insert(rows, f, text, io)

----------------------------------------------------------------------------
(* Select *)

\* The list comprehension [entry for entry in rows if keep]: the rows whose
\* flag is set, in their order.
RECURSIVE comprehension(_, _)
comprehension(rows, keep) ==
    IF rows = <<>> THEN <<>>
    ELSE (IF Head(keep) THEN <<Head(rows)>> ELSE <<>>)
         \o comprehension(Tail(rows), Tail(keep))

\* EmployeeTable.select and EmployeeLeaveTable.select: int() is applied to
\* the id of every row, so one id that is no integer fails the call.
range_select(rows, start_id, end_id) ==
    IF \E i \in 1..Len(rows) : ~int_valid(rows[i]["id"])
    THEN [err |-> ValueError(MsgInvalidLiteral), value |-> <<>>]
    ELSE [err |-> NoError,
          value |-> comprehension(rows,
                       [i \in 1..Len(rows) |->
                           /\ start_id <= int(rows[i]["id"])
                           /\ int(rows[i]["id"]) <= end_id])]

EmployeeTable_select(rows, start_id, end_id) == range_select(rows, start_id, end_id)

EmployeeLeaveTable_select(rows, start_id, end_id) == range_select(rows, start_id, end_id)

\* DepartmentTable.select: a row without the column fails the call.
DepartmentTable_select(rows, department_name) ==
    IF \E i \in 1..Len(rows) : "department_name" \notin DOMAIN rows[i]
    THEN [err |-> KeyError("department_name"), value |-> <<>>]
    ELSE [err |-> NoError,
          value |-> comprehension(rows,
                       [i \in 1..Len(rows) |->
                           rows[i]["department_name"] = department_name])]

\* The number of arguments select takes besides self.
select_arity(kind) == IF kind = "Department" THEN 1 ELSE 2

\* table.select(*args): binding the arguments fails when their number is
\* not the one the table's select takes.
Table_select(kind, rows, args) ==
    IF Len(args) # select_arity(kind) THEN [err |-> TypeError, value |-> <<>>]
    ELSE CASE kind = "Employee" -> EmployeeTable_select(rows, args[1], args[2])
           [] kind = "EmployeeLeave" -> EmployeeLeaveTable_select(rows, args[1], args[2])
           [] kind = "Department" -> DepartmentTable_select(rows, args[1])

\* The value of Database.select for a name that is not registered.
None == [none |-> TRUE]

----------------------------------------------------------------------------
(* Aggregate *)

RECURSIVE sum(_)
sum(x) == IF x = <<>> THEN 0 ELSE Head(x) + sum(Tail(x))

min(x) == CHOOSE v \in {x[i] : i \in 1..Len(x)} : \A j \in 1..Len(x) : v <= x[j]

max(x) == CHOOSE v \in {x[i] : i \in 1..Len(x)} : \A j \in 1..Len(x) : v >= x[j]

Abs(a) == IF a < 0 THEN 0 - a ELSE a

RECURSIVE gcd(_, _)
gcd(a, b) == IF b = 0 THEN a ELSE gcd(b, a % b)

\* a / b of two ints: the quotient as a fraction in lowest terms (the float
\* Python returns is the nearest double to it).
true_div(a, b) ==
    LET g == gcd(Abs(a), b)
    IN  [num |-> a \div g, den |-> b \div g]

AggregateNames == {<<"C", "O", "U", "N", "T">>, <<"S", "U", "M">>,
                   <<"M", "I", "N">>, <<"M", "A", "X">>, <<"A", "V", "G">>}

\* Variant: AVG with floor division.
aggregate_function_floor(fname, x) ==
    CASE fname = <<"C", "O", "U", "N", "T">> -> [err |-> NoError, value |-> Len(x)]
      [] fname = <<"S", "U", "M">> -> [err |-> NoError, value |-> sum(x)]
      [] fname = <<"M", "I", "N">> ->
            IF x = <<>> THEN [err |-> ValueError(MsgEmptySequence), value |-> 0]
            ELSE [err |-> NoError, value |-> min(x)]
      [] fname = <<"M", "A", "X">> ->
            IF x = <<>> THEN [err |-> ValueError(MsgEmptySequence), value |-> 0]
            ELSE [err |-> NoError, value |-> max(x)]
      [] fname = <<"A", "V", "G">> ->
            IF x = <<>> THEN [err |-> ZeroDivisionError, value |-> 0]
            ELSE [err |-> NoError, value |-> [num |-> sum(x) \div Len(x), den |-> 1]]

\* The function the match statement selects, applied to the parsed column.
aggregate_function(fname, x) ==
    CASE fname = <<"C", "O", "U", "N", "T">> -> [err |-> NoError, value |-> Len(x)]
      [] fname = <<"S", "U", "M">> -> [err |-> NoError, value |-> sum(x)]
      [] fname = <<"M", "I", "N">> ->
            IF x = <<>> THEN [err |-> ValueError(MsgEmptySequence), value |-> 0]
            ELSE [err |-> NoError, value |-> min(x)]
      [] fname = <<"M", "A", "X">> ->
            IF x = <<>> THEN [err |-> ValueError(MsgEmptySequence), value |-> 0]
            ELSE [err |-> NoError, value |-> max(x)]
      [] fname = <<"A", "V", "G">> ->
            IF x = <<>> THEN [err |-> ZeroDivisionError, value |-> 0]
            ELSE [err |-> NoError, value |-> true_div(sum(x), Len(x))]

\* [int(row[column]) for row in table.data]: the first row without the
\* column, or whose value is no integer, fails the call.
parse_column(rows, column) ==
    IF \E i \in 1..Len(rows) :
          column \notin DOMAIN rows[i] \/ ~int_valid(rows[i][column])
    THEN LET b == CHOOSE i \in 1..Len(rows) :
                     /\ column \notin DOMAIN rows[i] \/ ~int_valid(rows[i][column])
                     /\ \A j \in 1..(i - 1) :
                           column \in DOMAIN rows[j] /\ int_valid(rows[j][column])
         IN  [err |-> IF column \notin DOMAIN rows[b] THEN KeyError(column)
                      ELSE ValueError(MsgInvalidLiteral),
              value |-> <<>>]
    ELSE [err |-> NoError, value |-> [i \in 1..Len(rows) |-> int(rows[i][column])]]

\* Variant: the function name is checked before the column.
Database_aggregate_function_first(tbls, dat, table_name, column, function_name) ==
    IF table_name \notin DOMAIN tbls
    THEN [err |-> ValueError(MsgNoTable), value |-> 0]
    ELSE IF upper(function_name) \notin AggregateNames
    THEN [err |-> ValueError(MsgNotAggregate), value |-> 0]
    ELSE IF column \notin AttrSet(tbls[table_name])
    THEN [err |-> ValueError(MsgNoField), value |-> 0]
    ELSE LET col == parse_column(dat[tbls[table_name]], column)
         IN  IF col.err.exc # "none" THEN [err |-> col.err, value |-> 0]
             ELSE aggregate_function(upper(function_name), col.value)

\* Database.aggregate, given the registry and the tables' rows.
Database_aggregate(tbls, dat, table_name, column, function_name) ==
    IF table_name \notin DOMAIN tbls
    THEN [err |-> ValueError(MsgNoTable), value |-> 0]
    ELSE IF column \notin AttrSet(tbls[table_name])
    THEN [err |-> ValueError(MsgNoField), value |-> 0]
    ELSE IF upper(function_name) \notin AggregateNames
    THEN [err |-> ValueError(MsgNotAggregate), value |-> 0]
    ELSE LET col == parse_column(dat[tbls[table_name]], column)
         IN  IF col.err.exc # "none" THEN [err |-> col.err, value |-> 0]
             ELSE aggregate_function(upper(function_name), col.value)

----------------------------------------------------------------------------
(* Join *)

\* f"{table_name}.{key}"
namespaced(table_name, key) == table_name \o "." \o key

\* prepare_data: a copy of each row with every key namespaced.
prepare_data(table_name, table_data) ==
    [i \in 1..Len(table_data) |->
        [nk \in {namespaced(table_name, key) : key \in DOMAIN table_data[i]} |->
            table_data[i][CHOOSE key \in DOMAIN table_data[i] :
                             namespaced(table_name, key) = nk]]]

\* {**row1, **row2}
merged(row1, row2) ==
    [k \in DOMAIN row1 \cup DOMAIN row2 |->
        IF k \in DOMAIN row2 THEN row2[k] ELSE row1[k]]

\* The nested loops of join_two_tables from the p-th pair (row1, row2) on,
\* row1 in the outer loop; a row without its key column fails the call.
RECURSIVE join_loop(_, _, _, _, _, _)
join_loop(data1, data2, key1, key2, p, joined_rows) ==
    IF p >= Len(data1) * Len(data2)
    THEN [err |-> NoError, value |-> joined_rows]
    ELSE LET row1 == data1[(p \div Len(data2)) + 1]
             row2 == data2[(p % Len(data2)) + 1]
         IN  IF key1 \notin DOMAIN row1
             THEN [err |-> KeyError(key1), value |-> <<>>]
             ELSE IF key2 \notin DOMAIN row2
             THEN [err |-> KeyError(key2), value |-> <<>>]
             ELSE join_loop(data1, data2, key1, key2, p + 1,
                            IF row1[key1] = row2[key2]
                            THEN Append(joined_rows, merged(row1, row2))
                            ELSE joined_rows)

\* Variant: the loops nested the other way round, data2 outside.
join_two_tables_inner_first(data1, data2, key1, key2) ==
    join_loop(data2, data1, key2, key1, 0, <<>>)

join_two_tables(data1, data2, key1, key2) ==
    join_loop(data1, data2, key1, key2, 0, <<>>)

\* The string a sequence of pieces stands for.
RECURSIVE text_of(_)
text_of(pieces) ==
    IF pieces = <<>> THEN "" ELSE Head(pieces) \o text_of(Tail(pieces))

\* The references of all pairs in one sequence, in order.
RECURSIVE flattened(_)
flattened(attrs) ==
    IF attrs = <<>> THEN <<>> ELSE Head(attrs) \o flattened(Tail(attrs))

\* Variant: the column of a reference is not checked against the schema.
ref_error_no_column_check(tbls, names, line) ==
    LET parts == split(line, ".")
    IN  IF Len(parts) # 2 THEN ValueError(MsgUnpack)
        ELSE IF text_of(parts[1]) \notin names THEN ValueError(MsgNoTable)
        ELSE NoError

\* The validation of the references, in order: the first reference that is
\* not "table.column", names a table outside `names`, or a column outside
\* the table's ATTRS, fails the call.  A reference is a sequence of pieces,
\* "." being a piece of its own.
ref_error(tbls, names, line) ==
    LET parts == split(line, ".")
    IN  IF Len(parts) # 2 THEN ValueError(MsgUnpack)
        ELSE IF text_of(parts[1]) \notin names THEN ValueError(MsgNoTable)
        ELSE IF text_of(parts[2]) \notin AttrSet(tbls[text_of(parts[1])])
        THEN ValueError(MsgNoField)
        ELSE NoError

join_attr(line) == <<text_of(split(line, ".")[1]), text_of(split(line, ".")[2])>>

RECURSIVE join_chain(_, _, _, _, _)

\* Variant: every pair joins the rows of its own left table, the rows
\* joined so far are dropped.
join_chain_restart(tbls, dat, join_attrs, i, result) ==
    IF i >= Len(join_attrs) - 1
    THEN [err |-> NoError, value |-> result]
    ELSE LET table1 == join_attrs[i + 1][1]
             attr1 == join_attrs[i + 1][2]
             table2 == join_attrs[i + 2][1]
             attr2 == join_attrs[i + 2][2]
             r == join_two_tables(prepare_data(table1, dat[tbls[table1]]),
                                  prepare_data(table2, dat[tbls[table2]]),
                                  namespaced(table1, attr1),
                                  namespaced(table2, attr2))
         IN  IF r.err.exc # "none" THEN r
             ELSE join_chain(tbls, dat, join_attrs, i + 2, r.value)

\* The loop over the pairs of join_attrs, from index i (0-based, as in the
\* code) with the rows joined so far.
join_chain(tbls, dat, join_attrs, i, result) ==
    IF i >= Len(join_attrs) - 1
    THEN [err |-> NoError, value |-> result]
    ELSE LET table1 == join_attrs[i + 1][1]
             attr1 == join_attrs[i + 1][2]
             table2 == join_attrs[i + 2][1]
             attr2 == join_attrs[i + 2][2]
             data2 == prepare_data(table2, dat[tbls[table2]])
             data1 == IF i = 0 THEN prepare_data(table1, dat[tbls[table1]])
                      ELSE result
             r == join_two_tables(data1, data2, namespaced(table1, attr1),
                                  namespaced(table2, attr2))
         IN  IF r.err.exc # "none" THEN r
             ELSE join_chain(tbls, dat, join_attrs, i + 2, r.value)

\* Database.join, given the registry and the tables' rows.
Database_join(tbls, dat, names, attrs) ==
    LET refs == flattened(attrs)
        Bad(j) == ref_error(tbls, {names[i] : i \in 1..Len(names)}, refs[j]).exc # "none"
    IN  IF \E i \in 1..Len(names) : names[i] \notin DOMAIN tbls
        THEN [err |-> ValueError(MsgNoTable), value |-> <<>>]
        ELSE IF \E j \in 1..Len(refs) : Bad(j)
        THEN [err |-> ref_error(tbls, {names[i] : i \in 1..Len(names)},
                                refs[CHOOSE j \in 1..Len(refs) :
                                        Bad(j) /\ \A h \in 1..(j - 1) : ~Bad(h)]),
              value |-> <<>>]
        ELSE join_chain(tbls, dat, [j \in 1..Len(refs) |-> join_attr(refs[j])],
                        0, <<>>)

----------------------------------------------------------------------------
(* Inputs *)

\* Row texts, one character per element.
E1 == <<"1", ",", "A", ",", "3", "0", ",", "7", ",", "1">>
E2 == <<"2", ",", "B", ",", "2", "9", ",", "1", "0", ",", "1">>
E1b == <<"1", ",", "B", ",", "2", "8", ",", "6", ",", "2">>
E3 == <<"3", ",", "C", ",", "4", "0", ",", "-", "5", ",", "2">>
EShort == <<"1">>

D1 == <<"1", ",", "E">>
D2 == <<"2", ",", "S">>
DCr == <<CR, ",", "X">>
DLf == <<LF, ",", "Y">>
DShort == <<"3">>

L1 == <<"1", ",", "1", ",", "a", ",", "b">>
L2 == <<"2", ",", "2", ",", "c", ",", "d">>
L3 == <<"3", ",", "1", ",", "e", ",", "f">>
LLong == <<"2", ",", "2", ",", "c", ",", "d", ",", "x">>

TableNames == {"employees", "departments", "employees_leaves"}
NoSuchTable == "d"

\* main.py and the tests' fixture register each table under one name.
KindOf(name) ==
    CASE name = "employees" -> "Employee"
      [] name = "departments" -> "Department"
      [] name = "employees_leaves" -> "EmployeeLeave"

\* The row texts of each specification.
Texts(name) ==
    CASE name = "employees" -> {E1, E2, E1b, EShort}
      [] name = "departments" -> {D1, DCr, DLf}
      [] name = "employees_leaves" -> {LLong}
      [] OTHER -> {D1}

IOTexts(name) ==
    CASE name = "employees" -> {E1, E2}
      [] name = "departments" -> {D1}
      [] name = "employees_leaves" -> {L1}
      [] OTHER -> {D1}

JoinTexts(name) ==
    CASE name = "employees" -> {E1, E2, EShort}
      [] name = "departments" -> {D1, D2}
      [] name = "employees_leaves" -> {L1, L2, L3}
      [] OTHER -> {D1}

AggregateTexts(name) ==
    CASE name = "employees" -> {E1, E2, E3, EShort}
      [] name = "departments" -> {D1}
      [] name = "employees_leaves" -> {L1}
      [] OTHER -> {D1}

StoreTexts(name) ==
    CASE name = "employees" -> {E1, E2, EShort}
      [] name = "departments" -> {D1, DCr}
      [] name = "employees_leaves" -> {L1}
      [] OTHER -> {D1}

QueryTexts(name) ==
    CASE name = "employees" -> {E1, E2, EShort}
      [] name = "departments" -> {D1, DShort}
      [] name = "employees_leaves" -> {L1}
      [] OTHER -> {D1}

SelectArgs(name) ==
    CASE name = "departments" -> {<< <<"E">> >>}
      [] name = "employees" -> {<<1, 1>>, <<1, 2>>}
      [] OTHER -> {<<1, 1>>}

FunctionNames == {<<"C", "O", "U", "N", "T">>, <<"s", "u", "m">>,
                  <<"M", "i", "n">>, <<"m", "a", "X">>, <<"a", "v", "g">>,
                  <<"A", "N", "Y">>}

AggregateArgs ==
    {<<n, c, f>> : n \in {"employees"}, c \in AttrSet("Employee"), f \in FunctionNames}
    \cup {<<n, c, f>> : n \in {"departments"}, c \in AttrSet("Department"),
                        f \in FunctionNames}
    \cup {<<n, c, f>> : n \in {"employees_leaves"}, c \in AttrSet("EmployeeLeave"),
                        f \in FunctionNames}
    \cup {<<n, c, f>> : n \in {"d", "employees"}, c \in {"start_date"},
                        f \in {<<"C", "O", "U", "N", "T">>, <<"A", "N", "Y">>}}

\* The select calls of the specification of the three queries: ranges
\* that hold one id, two ids and none, names that are held and not.
QuerySelectArgs(name) ==
    CASE name = "departments" -> {<< <<"E">> >>, << <<"X">> >>}
      [] name = "employees" -> {<<1, 1>>, <<1, 2>>, <<2, 1>>}
      [] name = "employees_leaves" -> {<<1, 2>>, <<2, 3>>}
      [] OTHER -> {<<1, 1>>}

QueryAggregateArgs ==
    {<<"employees", "id", <<"C", "O", "U", "N", "T">>>>,
     <<"employees", "name", <<"s", "u", "m">>>>,
     <<"employees", "salary", <<"a", "v", "g">>>>,
     <<"departments", "id", <<"M", "i", "n">>>>,
     <<"employees", "start_date", <<"C", "O", "U", "N", "T">>>>,
     <<"employees", "id", <<"A", "N", "Y">>>>,
     <<"d", "id", <<"C", "O", "U", "N", "T">>>>}

\* The calls of the specification of the registry: two names, each
\* registered with either of two tables, and one call of each kind per
\* name.
RegistryNames == {"employees", "departments"}
RegistryKinds == {"Employee", "Department"}

RegistryTexts(name) ==
    CASE name = "employees" -> {E1}
      [] name = "departments" -> {D2}

RegistrySelectArgs(name) ==
    CASE name = "employees" -> {<<1, 2>>}
      [] name = "departments" -> {<< <<"S">> >>}

RegistryAggregateArgs ==
    {<<"employees", "id", <<"C", "O", "U", "N", "T">>>>,
     <<"departments", "id", <<"s", "u", "m">>>>}

Ref(table, attr) == <<table, ".", attr>>

RegistryJoinArgs ==
    { [tables |-> <<"employees", "departments">>,
       attrs |-> << <<Ref("employees", "department_id"), Ref("departments", "id")>> >>] }

JoinArgs ==
    { [tables |-> <<"employees", "departments">>,
       attrs |-> << <<Ref("employees", "department_id"), Ref("departments", "id")>> >>],
      [tables |-> <<"departments", "employees">>,
       attrs |-> << <<Ref("departments", "id"), Ref("employees", "department_id")>> >>],
      [tables |-> <<"employees_leaves", "employees">>,
       attrs |-> << <<Ref("employees_leaves", "employee_id"), Ref("employees", "id")>> >>],
      [tables |-> <<"employees", "employees_leaves">>,
       attrs |-> << <<Ref("employees", "department_id"), Ref("employees_leaves", "employee_id")>> >>],
      [tables |-> <<"employees_leaves", "employees", "departments">>,
       attrs |-> << <<Ref("employees_leaves", "employee_id"), Ref("employees", "id")>>,
                    <<Ref("employees", "department_id"), Ref("departments", "id")>> >>],
      [tables |-> <<"employees", "departments", "employees_leaves">>,
       attrs |-> << <<Ref("employees", "department_id"), Ref("departments", "id")>>,
                    <<Ref("employees_leaves", "employee_id"), Ref("employees_leaves", "id")>> >>],
      [tables |-> <<"employees", "d">>,
       attrs |-> << <<Ref("employees", "department_id"), Ref("departments", "id")>> >>],
      [tables |-> <<"employees", "departments">>,
       attrs |-> << <<Ref("employees", "department_id"), Ref("d", "id")>> >>],
      [tables |-> <<"employees", "departments">>,
       attrs |-> << <<Ref("employees", "department_id"), Ref("departments", "department_id")>> >>],
      [tables |-> <<"employees", "departments">>,
       attrs |-> << <<Ref("employees", "department_id"), Ref("employees_leaves", "id")>> >>],
      [tables |-> <<"employees_leaves", "employees", "departments">>,
       attrs |-> << <<Ref("employees_leaves", "employee_id"), Ref("employees", "id")>>,
                    <<Ref("employees", "department_id"), Ref("departments", "department_id")>> >>] }

----------------------------------------------------------------------------
(* State *)

VARIABLES
    instances, \* SingletonMeta._instances: class -> its instance
    tables,   \* Database.tables: registered name -> table (by its kind)
    data,     \* Table.data of each table: its sequence of rows
    file,     \* the file at each table's FILE_PATH
    ret       \* the last call: operation, arguments, exception, value

vars == <<instances, tables, data, file, ret>>

Call(op, args, err, value) ==
    [op |-> op, params |-> args, exc |-> err.exc, msg |-> err.msg, value |-> value]

\* The instance made by the first Database().
TheDatabase == 1

\* Database() has been called.
HasDatabase == "Database" \in DOMAIN instances

\* Database() and three Table() constructions with no file on disk.
Init ==
    /\ instances = [cls \in {"Database"} |-> TheDatabase]
    /\ tables = <<>>
    /\ data = [k \in Kinds |-> <<>>]
    /\ file = [k \in Kinds |-> NoFile]
    /\ ret = Call("init", <<>>, NoError, <<>>)

\* The module imported, three Table() constructions with no file on disk,
\* and no Database() yet (tables is then no attribute of anything).
InitImport ==
    /\ instances = <<>>
    /\ tables = <<>>
    /\ data = [k \in Kinds |-> <<>>]
    /\ file = [k \in Kinds |-> NoFile]
    /\ ret = Call("init", <<>>, NoError, <<>>)

\* Variant: every construction makes a new instance, with its own empty
\* tables.
SingletonMeta_call_no_cache ==
    /\ instances' = [cls \in {"Database"} |->
                        IF HasDatabase THEN instances["Database"] + 1
                        ELSE TheDatabase]
    /\ tables' = <<>>
    /\ ret' = Call("Database", <<>>, NoError, instances'["Database"])
    /\ UNCHANGED <<data, file>>

\* Database(): SingletonMeta.__call__ makes the instance, and runs
\* Database.__init__, only if the class has none yet, and returns the
\* instance of the class.
SingletonMeta_call ==
    /\ IF ~HasDatabase
       THEN /\ instances' = [cls \in {"Database"} |-> TheDatabase]
            /\ tables' = <<>>
       ELSE UNCHANGED <<instances, tables>>
    /\ ret' = Call("Database", <<>>, NoError, instances'["Database"])
    /\ UNCHANGED <<data, file>>

\* Database.register_table
register_table(name, table) ==
    /\ HasDatabase
    /\ tables' = [x \in DOMAIN tables \cup {name} |->
                     IF x = name THEN table ELSE tables[x]]
    /\ ret' = Call("register_table", <<name, table>>, NoError, <<>>)
    /\ UNCHANGED <<instances, data, file>>

\* Variant: an insert into a name that is not registered is ignored, as
\* select does.
insert_ignores_unknown(name, text, io) ==
    /\ HasDatabase
    /\ IF name \notin DOMAIN tables
       THEN /\ io = "ok"
            /\ ret' = Call("insert", <<name, text>>, NoError, <<>>)
            /\ UNCHANGED <<instances, tables, data, file>>
       ELSE LET k == tables[name]
                r == Table_insert(k, data[k], file[k], text, io)
            IN  /\ Len(r.rows) <= MaxRows
                /\ io = "ok" \/ Len(r.rows) > Len(data[k])
                /\ data' = [data EXCEPT ![k] = r.rows]
                /\ file' = [file EXCEPT ![k] = r.file]
                /\ ret' = Call("insert", <<name, text>>, r.err, <<>>)
                /\ UNCHANGED <<instances, tables>>

\* Database.insert; io is the outcome of the storage during save.
insert(name, text, io) ==
    /\ HasDatabase
    /\ IF name \notin DOMAIN tables
       THEN /\ io = "ok"
            /\ ret' = Call("insert", <<name, text>>, ValueError(MsgNoTable), <<>>)
            /\ UNCHANGED <<instances, tables, data, file>>
       ELSE LET k == tables[name]
                r == Table_insert(k, data[k], file[k], text, io)
            IN  /\ Len(r.rows) <= MaxRows
                /\ io = "ok" \/ Len(r.rows) > Len(data[k])
                /\ data' = [data EXCEPT ![k] = r.rows]
                /\ file' = [file EXCEPT ![k] = r.file]
                /\ ret' = Call("insert", <<name, text>>, r.err, <<>>)
                /\ UNCHANGED <<instances, tables>>

\* Table.save, called on a table directly
Save(k, io) ==
    /\ LET sv == save(k, data[k], file[k], io)
       IN  /\ file' = [file EXCEPT ![k] = sv.file]
           /\ ret' = Call("save", <<k>>, sv.err, <<>>)
    /\ UNCHANGED <<instances, tables, data>>

\* Table.load, called on a table directly
Load(k) ==
    /\ data' = [data EXCEPT ![k] = load(file[k])]
    /\ ret' = Call("load", <<k>>, NoError, <<>>)
    /\ UNCHANGED <<instances, tables, file>>

\* Database.select
select(name, args) ==
    /\ HasDatabase
    /\ IF name \notin DOMAIN tables
       THEN ret' = Call("select", <<name, args>>, NoError, None)
       ELSE LET r == Table_select(tables[name], data[tables[name]], args)
            IN  ret' = Call("select", <<name, args>>, r.err, r.value)
    /\ UNCHANGED <<instances, tables, data, file>>

\* Variant: prepare_data renames the fields of the tables' own rows, not
\* of copies.
join_renames_in_place(names, attrs) ==
    /\ HasDatabase
    /\ LET r == Database_join(tables, data, names, attrs)
           Listed(k) == {i \in 1..Len(names) :
                           names[i] \in DOMAIN tables /\ tables[names[i]] = k}
       IN  /\ ret' = Call("join", <<names, attrs>>, r.err, r.value)
           /\ data' = [k \in Kinds |->
                          IF r.err.exc = "ValueError" \/ Listed(k) = {} THEN data[k]
                          ELSE prepare_data(names[CHOOSE i \in Listed(k) : TRUE],
                                            data[k])]
    /\ UNCHANGED <<instances, tables, file>>

\* Database.join
join(names, attrs) ==
    /\ HasDatabase
    /\ LET r == Database_join(tables, data, names, attrs)
       IN  ret' = Call("join", <<names, attrs>>, r.err, r.value)
    /\ UNCHANGED <<instances, tables, data, file>>

\* Database.aggregate
aggregate(table_name, column, function_name) ==
    /\ HasDatabase
    /\ LET r == Database_aggregate(tables, data, table_name, column, function_name)
       IN  ret' = Call("aggregate", <<table_name, column, function_name>>, r.err, r.value)
    /\ UNCHANGED <<instances, tables, data, file>>

AllNames == TableNames \cup {NoSuchTable}

\* The storage operations over a storage that never fails.
Next ==
    \/ \E name \in TableNames : register_table(name, KindOf(name))
    \/ \E name \in AllNames : \E text \in Texts(name) : insert(name, text, "ok")
    \/ \E k \in Kinds : Save(k, "ok")
    \/ \E k \in Kinds : Load(k)
    \/ \E name \in AllNames : \E args \in SelectArgs(name) : select(name, args)

Spec == Init /\ [][Next]_vars

\* The storage operations over a storage whose writes may fail.
NextIO ==
    \/ \E name \in TableNames : register_table(name, KindOf(name))
    \/ \E name \in AllNames : \E text \in IOTexts(name) : \E io \in IOAll :
          insert(name, text, io)
    \/ \E k \in Kinds : \E io \in IOAll : Save(k, io)
    \/ \E k \in Kinds : Load(k)

SpecIO == Init /\ [][NextIO]_vars

\* Joins over tables filled by inserts.
NextJoin ==
    \/ \E name \in TableNames : register_table(name, KindOf(name))
    \/ \E name \in AllNames : \E text \in JoinTexts(name) : insert(name, text, "ok")
    \/ \E j \in JoinArgs : join(j.tables, j.attrs)

SpecJoin == Init /\ [][NextJoin]_vars

\* Aggregates over tables filled by inserts.
NextAggregate ==
    \/ \E name \in TableNames : register_table(name, KindOf(name))
    \/ \E name \in AllNames : \E text \in AggregateTexts(name) : insert(name, text, "ok")
    \/ \E a \in AggregateArgs : aggregate(a[1], a[2], a[3])

SpecAggregate == Init /\ [][NextAggregate]_vars

\* Inserts, saves and loads over a storage that never fails.
NextStore ==
    \/ \E name \in TableNames : register_table(name, KindOf(name))
    \/ \E name \in AllNames : \E text \in StoreTexts(name) : insert(name, text, "ok")
    \/ \E k \in Kinds : Save(k, "ok")
    \/ \E k \in Kinds : Load(k)

SpecStore == Init /\ [][NextStore]_vars

\* The three queries together, over tables filled by inserts.
NextQuery ==
    \/ \E name \in TableNames : register_table(name, KindOf(name))
    \/ \E name \in AllNames : \E text \in QueryTexts(name) : insert(name, text, "ok")
    \/ \E name \in AllNames : \E args \in QuerySelectArgs(name) : select(name, args)
    \/ \E j \in JoinArgs : join(j.tables, j.attrs)
    \/ \E a \in QueryAggregateArgs : aggregate(a[1], a[2], a[3])

SpecQuery == Init /\ [][NextQuery]_vars

\* The registry: constructions of Database, registrations of a name with
\* one table and then another, and the calls routed through the names.
NextRegistry ==
    \/ SingletonMeta_call
    \/ \E name \in RegistryNames : \E k \in RegistryKinds : register_table(name, k)
    \/ \E name \in RegistryNames : \E text \in RegistryTexts(name) :
          insert(name, text, "ok")
    \/ \E name \in RegistryNames : \E args \in RegistrySelectArgs(name) :
          select(name, args)
    \/ \E j \in RegistryJoinArgs : join(j.tables, j.attrs)
    \/ \E a \in RegistryAggregateArgs : aggregate(a[1], a[2], a[3])

SpecRegistry == InitImport /\ [][NextRegistry]_vars

----------------------------------------------------------------------------
(* Properties *)

\* The table a call through the registry reaches, and the row its text
\* stands for: the schema columns, positionally, over the fields.
Registered(name) == name \in DOMAIN tables
EntryOf(kind, text) == zip_dict(ATTRS(kind), split(text, ","))
Rows(seq) == {seq[i] : i \in 1..Len(seq)}

SameId(rows, entry) == {i \in 1..Len(rows) : rows[i]["id"] = entry["id"]}

\* C1: after any sequence of inserts, loads and saves on tables that start
\* empty, no table holds two rows with the same id, no two Employee rows
\* share (id, department_id), and the same holds of the records in storage.
C1_UniqueIds ==
    \A k \in Kinds :
        /\ \A i, j \in 1..Len(data[k]) :
              i # j => data[k][i]["id"] # data[k][j]["id"]
        /\ \A i, j \in 1..Len(file[k].rows) :
              i # j => file[k].rows[i][1] # file[k].rows[j][1]
        /\ k = "Employee" =>
              \A i, j \in 1..Len(data[k]) :
                  i # j => \/ data[k][i]["id"] # data[k][j]["id"]
                           \/ row_record(<<"department_id">>, data[k][i])
                                # row_record(<<"department_id">>, data[k][j])

\* C2: an insert whose row has the id of an existing row fails with a
\* ConstraintViolation (one of the two uniqueness errors) and leaves the
\* rows in memory and the storage of every table as they were.
C2_DuplicateRejected ==
    [][(ret'.op = "insert" /\ Registered(ret'.params[1])
         /\ SameId(data[tables[ret'.params[1]]],
                   EntryOf(tables[ret'.params[1]], ret'.params[2])) # {})
        => /\ ret'.exc = "ValueError"
           /\ ret'.msg \in {MsgIdUnique, MsgCompositeUnique}
           /\ data' = data
           /\ file' = file]_vars

\* C3: every insert either appends the row and persists the full row set,
\* or fails and changes neither the rows in memory nor the storage; after
\* an insert no row in memory is missing from storage.
C3_InsertAllOrNothing ==
    [][ret'.op = "insert"
        => IF ~Registered(ret'.params[1])
           THEN ret'.exc # "none" /\ data' = data /\ file' = file
           ELSE LET k == tables[ret'.params[1]]
                    entry == EntryOf(k, ret'.params[2])
                IN  \/ /\ ret'.exc = "none"
                       /\ data' = [data EXCEPT ![k] = Append(data[k], entry)]
                       /\ file' = [file EXCEPT ![k] = written_file(k, data'[k])]
                    \/ /\ ret'.exc # "none"
                       /\ data' = data
                       /\ file' = file]_vars

\* The select call that matches a row: its own id as both bounds, or its
\* own department name.
MatchingSelect(kind, rows, entry) ==
    IF kind = "Department"
    THEN DepartmentTable_select(rows, entry["department_name"])
    ELSE Table_select(kind, rows, <<int(entry["id"]), int(entry["id"])>>)

CanMatch(kind, entry) ==
    IF kind = "Department" THEN "department_name" \in DOMAIN entry
    ELSE int_valid(entry["id"])

\* C4: after an insert that succeeded, a select that matches the inserted
\* row returns it unchanged, from the rows in memory and from the rows a
\* load() reads back from storage.
C4_SelectReturnsInserted ==
    (ret.op = "insert" /\ ret.exc = "none"
       /\ CanMatch(tables[ret.params[1]], EntryOf(tables[ret.params[1]], ret.params[2])))
    => LET k == tables[ret.params[1]]
           entry == EntryOf(k, ret.params[2])
           now == MatchingSelect(k, data[k], entry)
           reloaded == MatchingSelect(k, load(file[k]), entry)
       IN  /\ now.err = NoError /\ entry \in Rows(now.value)
           /\ reloaded.err = NoError /\ entry \in Rows(reloaded.value)

\* C5: every row a table holds has exactly the table's schema columns as
\* its keys, whatever the number of fields of the inserted texts.
C5_RowKeysAreSchema ==
    \A k \in Kinds : \A i \in 1..Len(data[k]) : DOMAIN data[k][i] = AttrSet(k)

\* C6: an Employee insert with the id of an existing row fails with the
\* composite-key error if the department_id is that row's too, and with
\* the single-key error otherwise.
C6_EmployeeErrorPriority ==
    [][(ret'.op = "insert" /\ Registered(ret'.params[1])
         /\ tables[ret'.params[1]] = "Employee"
         /\ SameId(data["Employee"], EntryOf("Employee", ret'.params[2])) # {})
        => LET entry == EntryOf("Employee", ret'.params[2])
               same == SameId(data["Employee"], entry)
               row == data["Employee"][CHOOSE i \in same : \A j \in same : i <= j]
           IN  /\ ret'.exc = "ValueError"
               /\ ret'.msg = IF row_record(<<"department_id">>, row)
                                 = row_record(<<"department_id">>, entry)
                                /\ "department_id" \in DOMAIN row
                                /\ "department_id" \in DOMAIN entry
                             THEN MsgCompositeUnique
                             ELSE MsgIdUnique]_vars

\* The namespaced copy of a row, and the rows of a table so copied.
NamespacedRow(t, row) ==
    [nk \in {namespaced(t, c) : c \in DOMAIN row} |->
        row[CHOOSE c \in DOMAIN row : namespaced(t, c) = nk]]

NamespacedRows(t) == [i \in 1..Len(data[tables[t]]) |-> NamespacedRow(t, data[tables[t]][i])]

\* The union of the fields of two rows.
RowUnion(a, b) ==
    [k \in DOMAIN a \cup DOMAIN b |-> IF k \in DOMAIN b THEN b[k] ELSE a[k]]

\* One equi-join: the pairs (i, j) whose key values are equal, counted in
\* the order of i first and j second, each giving the union of its rows.
EquiJoin(left, right, key1, key2) ==
    LET M == {p \in (1..Len(left)) \X (1..Len(right)) :
                 left[p[1]][key1] = right[p[2]][key2]}
        Upto(p) == {q \in M : q[1] < p[1] \/ (q[1] = p[1] /\ q[2] <= p[2])}
    IN  [n \in 1..Cardinality(M) |->
            LET p == CHOOSE p \in M : Cardinality(Upto(p)) = n
            IN  RowUnion(left[p[1]], right[p[2]])]

\* The references of a join call, flattened; a reference is
\* <<table, ".", column>>.
RefsOf(attrs) == flattened(attrs)

\* The result after the first m key pairs.
RECURSIVE JoinedUpTo(_, _)
JoinedUpTo(refs, m) ==
    IF m = 0 THEN <<>>
    ELSE LET l == refs[2 * m - 1]
             r == refs[2 * m]
         IN  EquiJoin(IF m = 1 THEN NamespacedRows(l[1]) ELSE JoinedUpTo(refs, m - 1),
                      NamespacedRows(r[1]),
                      namespaced(l[1], l[3]), namespaced(r[1], r[3]))

\* A join call whose tables are registered and whose references name
\* listed tables and columns of their schemas.
ValidJoin(names, attrs) ==
    /\ \A i \in 1..Len(names) : Registered(names[i])
    /\ \A j \in 1..Len(RefsOf(attrs)) :
          LET ref == RefsOf(attrs)[j]
          IN  /\ Len(ref) = 3 /\ ref[2] = "."
              /\ ref[1] \in {names[i] : i \in 1..Len(names)}
              /\ ref[3] \in AttrSet(tables[ref[1]])

\* C7: a join returns the rows obtained by iterating the left rows outside
\* and the right rows inside, emitting for each pair with equal key values
\* the union of the namespaced fields; each further key pair joins the
\* rows so far against the namespaced rows of its right table.  A join on
\* one key pair over rows that have their key column returns.
C7_JoinIsNestedLoop ==
    ret.op = "join" =>
        /\ ret.exc = "none"
              => ret.value = JoinedUpTo(RefsOf(ret.params[2]), Len(RefsOf(ret.params[2])) \div 2)
        /\ (/\ ValidJoin(ret.params[1], ret.params[2])
            /\ Len(RefsOf(ret.params[2])) = 2
            /\ \A j \in 1..2 :
                  LET ref == RefsOf(ret.params[2])[j]
                  IN  \A row \in Rows(data[tables[ref[1]]]) : ref[3] \in DOMAIN row)
              => ret.exc = "none"

\* A join on one key pair that returned four rows from two rows on each
\* side.
C7_Witness ==
    /\ ret.op = "join" /\ ret.exc = "none"
    /\ Len(RefsOf(ret.params[2])) = 2
    /\ Len(ret.value) = 4

ChainNames == <<"employees_leaves", "employees", "departments">>
ChainAttrs ==
    << <<Ref("employees_leaves", "employee_id"), Ref("employees", "id")>>,
       <<Ref("employees", "department_id"), Ref("departments", "id")>> >>

\* Every leave names an employee that exists, every such employee a
\* department that exists.
ForeignKeysMatch ==
    \A l \in Rows(data["EmployeeLeave"]) :
        /\ "employee_id" \in DOMAIN l
        /\ \E e \in Rows(data["Employee"]) : e["id"] = l["employee_id"]
        /\ \A e \in Rows(data["Employee"]) :
              e["id"] = l["employee_id"]
                 => /\ "department_id" \in DOMAIN e
                    /\ \E d \in Rows(data["Department"]) : d["id"] = e["department_id"]

\* C8: the chained join leaves -> employees -> departments over tables
\* filled by inserts, with matching foreign keys on both hops, has one row
\* per leave, in the order of the leaves, with the namespaced fields of the
\* leave, of its employee and of the employee's department.
C8_ChainedJoinPerLeave ==
    (/\ ret.op = "join" /\ ret.params = <<ChainNames, ChainAttrs>>
     /\ \A t \in TableNames : Registered(t) /\ tables[t] = KindOf(t)
     /\ ForeignKeysMatch)
    => /\ ret.exc = "none"
       /\ Len(ret.value) = Len(data["EmployeeLeave"])
       /\ \A i \in 1..Len(ret.value) :
             LET l == data["EmployeeLeave"][i]
                 e == CHOOSE e \in Rows(data["Employee"]) : e["id"] = l["employee_id"]
                 d == CHOOSE d \in Rows(data["Department"]) : d["id"] = e["department_id"]
             IN  ret.value[i] =
                    RowUnion(RowUnion(NamespacedRow("employees_leaves", l),
                                      NamespacedRow("employees", e)),
                             NamespacedRow("departments", d))

\* The chained join over two leaves.
C8_Witness ==
    /\ ret.op = "join" /\ ret.params = <<ChainNames, ChainAttrs>>
    /\ ForeignKeysMatch
    /\ Len(data["EmployeeLeave"]) = 2
    /\ Len(ret.value) = 2

\* The function a name stands for, whatever its case.
IsFunction(fname, lower, capital) ==
    /\ Len(fname) = Len(capital)
    /\ \A i \in 1..Len(fname) : fname[i] \in {lower[i], capital[i]}

IsCount(f) == IsFunction(f, <<"c", "o", "u", "n", "t">>, <<"C", "O", "U", "N", "T">>)
IsSum(f) == IsFunction(f, <<"s", "u", "m">>, <<"S", "U", "M">>)
IsMin(f) == IsFunction(f, <<"m", "i", "n">>, <<"M", "I", "N">>)
IsMax(f) == IsFunction(f, <<"m", "a", "x">>, <<"M", "A", "X">>)
IsAvg(f) == IsFunction(f, <<"a", "v", "g">>, <<"A", "V", "G">>)

\* An aggregate call on a registered table and a column of its schema.
ValidAggregate == ret.op = "aggregate" /\ Registered(ret.params[1])
                     /\ ret.params[2] \in AttrSet(tables[ret.params[1]])

\* C9: COUNT returns the number of rows of the table for every column of
\* its schema, whatever the column holds, and 0 on an empty table.
C9_CountIsRowCount ==
    (ValidAggregate /\ IsCount(ret.params[3]))
    => ret.exc = "none" /\ ret.value = Len(data[tables[ret.params[1]]])

RECURSIVE SumOver(_, _)
SumOver(x, n) == IF n = 0 THEN 0 ELSE x[n] + SumOver(x, n - 1)

\* C10: over a column of integers, SUM is the sum of the parsed values (0
\* on an empty table), MIN and MAX are the smallest and the largest, AVG is
\* SUM divided by COUNT; the function name is matched whatever its case.
C10_AggregatesOverIntegers ==
    (/\ ValidAggregate
     /\ \A row \in Rows(data[tables[ret.params[1]]]) :
           ret.params[2] \in DOMAIN row /\ int_valid(row[ret.params[2]]))
    => LET rows == data[tables[ret.params[1]]]
           x == [i \in 1..Len(rows) |-> int(rows[i][ret.params[2]])]
           f == ret.params[3]
       IN  /\ IsSum(f) => ret.exc = "none" /\ ret.value = SumOver(x, Len(x))
           /\ (IsMin(f) /\ x # <<>>)
                 => /\ ret.exc = "none"
                    /\ \E i \in 1..Len(x) : ret.value = x[i]
                    /\ \A i \in 1..Len(x) : ret.value <= x[i]
           /\ (IsMax(f) /\ x # <<>>)
                 => /\ ret.exc = "none"
                    /\ \E i \in 1..Len(x) : ret.value = x[i]
                    /\ \A i \in 1..Len(x) : ret.value >= x[i]
           /\ (IsAvg(f) /\ x # <<>>)
                 => /\ ret.exc = "none"
                    /\ ret.value.den > 0
                    /\ ret.value.num * Len(x) = SumOver(x, Len(x)) * ret.value.den

\* An average, under a lower-case name, that is no whole number.
C10_Witness ==
    /\ ValidAggregate /\ ret.params[3] = <<"a", "v", "g">>
    /\ ret.exc = "none"
    /\ ret.value.den = 2

\* A function name that is none of the five, whatever its case.
UnknownFunction(f) == ~(IsCount(f) \/ IsSum(f) \/ IsMin(f) \/ IsMax(f) \/ IsAvg(f))

\* C11: an aggregate call with an invalid argument fails with the error of
\* the first invalid argument in the order table, column, function: "no
\* such table" for a name that is not registered, else "no such field" for
\* a column outside the schema, else "not an aggregate function" for a name
\* outside the five.  The failure comes before any row is parsed (rows that
\* are no integers do not change it) and leaves the registry, every
\* table's rows and every file as they were.
C11_AggregateValidationOrder ==
    [][ret'.op = "aggregate"
       => LET table_name == ret'.params[1]
              column == ret'.params[2]
              function_name == ret'.params[3]
              expected ==
                  IF ~Registered(table_name) THEN MsgNoTable
                  ELSE IF column \notin AttrSet(tables[table_name]) THEN MsgNoField
                  ELSE IF UnknownFunction(function_name) THEN MsgNotAggregate
                  ELSE "valid"
          IN  expected # "valid"
              => /\ ret'.exc = "ValueError" /\ ret'.msg = expected
                 /\ tables' = tables /\ data' = data /\ file' = file]_vars

\* An unknown function name over a column of names, in a table with rows:
\* the call fails on the function name, not on parsing the names.
C11_Witness ==
    /\ ret.op = "aggregate" /\ ret.params = <<"employees", "name", <<"A", "N", "Y">>>>
    /\ Registered("employees") /\ data[tables["employees"]] # <<>>
    /\ ret.exc = "ValueError" /\ ret.msg = MsgNotAggregate

\* C12: join checks all its arguments before it joins anything.  A listed
\* name that is not registered fails with "no such table"; otherwise the
\* first reference that names a table outside the listed ones fails with
\* "no such table", or a column outside that table's schema with "no such
\* field".  Such a call returns no rows and leaves the registry, every
\* table's rows and every file as they were, whatever the rows hold.
C12_JoinValidatesFirst ==
    [][ret'.op = "join"
       => LET names == ret'.params[1]
              refs == RefsOf(ret'.params[2])
              listed == {names[i] : i \in 1..Len(names)}
              Unlisted(j) == refs[j][1] \notin listed
              BadRef(j) == \/ Unlisted(j)
                           \/ refs[j][3] \notin AttrSet(tables[refs[j][1]])
              first == CHOOSE j \in 1..Len(refs) :
                          BadRef(j) /\ \A h \in 1..(j - 1) : ~BadRef(h)
              expected ==
                  IF \E i \in 1..Len(names) : ~Registered(names[i]) THEN MsgNoTable
                  ELSE IF \A j \in 1..Len(refs) : ~BadRef(j) THEN "valid"
                  ELSE IF Unlisted(first) THEN MsgNoTable
                  ELSE MsgNoField
          IN  expected # "valid"
              => /\ ret'.exc = "ValueError" /\ ret'.msg = expected
                 /\ ret'.value = <<>>
                 /\ tables' = tables /\ data' = data /\ file' = file]_vars

\* A chain whose first pair would join rows and whose second pair names a
\* column outside the schema fails on the column, with all three tables
\* holding rows.
C12_Witness ==
    /\ ret.op = "join" /\ Len(ret.params[1]) = 3
    /\ ret.exc = "ValueError" /\ ret.msg = MsgNoField
    /\ \A k \in Kinds : data[k] # <<>>

\* C13: a join whose arguments pass validation returns a sequence of rows
\* and raises nothing, for any contents of the tables and any chain of key
\* pairs, a later pair whose left key is no column of the rows joined so
\* far included.  Stated for tables whose rows all have every column of
\* their schema.
C13_ValidJoinReturns ==
    (/\ ret.op = "join" /\ ValidJoin(ret.params[1], ret.params[2])
     /\ \A k \in Kinds : \A row \in Rows(data[k]) : DOMAIN row = AttrSet(k))
    => ret.exc = "none" /\ ret.value \in Seq(Rows(ret.value))

\* C14: on a name that is not registered Database.insert fails with "no
\* such table" and changes no table and no file, while Database.select
\* returns None and raises nothing.  On a registered name insert is the
\* table's insert, with the table's error (a duplicate, a missing column)
\* as the error of the call, and select is the table's select.
C14_RegistryLookups ==
    [][/\ ret'.op = "insert"
          => LET name == ret'.params[1]
                 k == tables[name]
                 r == Table_insert(k, data[k], file[k], ret'.params[2], "ok")
             IN  IF ~Registered(name)
                 THEN /\ ret'.exc = "ValueError" /\ ret'.msg = MsgNoTable
                      /\ tables' = tables /\ data' = data /\ file' = file
                 ELSE /\ ret'.exc = r.err.exc /\ ret'.msg = r.err.msg
                      /\ data' = [data EXCEPT ![k] = r.rows]
       /\ ret'.op = "select"
          => LET name == ret'.params[1]
                 r == Table_select(tables[name], data[tables[name]], ret'.params[2])
             IN  IF ~Registered(name)
                 THEN ret'.exc = "none" /\ ret'.value = None
                 ELSE /\ ret'.exc = r.err.exc /\ ret'.msg = r.err.msg
                      /\ ret'.value = r.value]_vars

\* An insert into a name that is not registered, refused while the
\* registered tables hold rows.
C14_Witness ==
    /\ ret.op = "insert" /\ ~Registered(ret.params[1])
    /\ ret.exc = "ValueError" /\ ret.msg = MsgNoTable
    /\ \E name \in DOMAIN tables : data[tables[name]] # <<>>

\* C15: a select on a registered table returns, in the order of their
\* insertion, exactly the rows that match and never fails: for employees
\* and leaves the rows whose id, as an integer, is at least the first
\* argument and at most the second (none when the first exceeds the
\* second), for departments the rows whose department_name is the argument.
C15_SelectReturnsMatches ==
    (/\ ret.op = "select" /\ Registered(ret.params[1])
     /\ Len(ret.params[2]) = select_arity(tables[ret.params[1]]))
    => LET kind == tables[ret.params[1]]
           args == ret.params[2]
           InRange(row) == /\ "id" \in DOMAIN row /\ int_valid(row["id"])
                           /\ args[1] <= int(row["id"]) /\ int(row["id"]) <= args[2]
           Named(row) == /\ "department_name" \in DOMAIN row
                         /\ row["department_name"] = args[1]
       IN  /\ ret.exc = "none"
           /\ ret.value = IF kind = "Department" THEN SelectSeq(data[kind], Named)
                           ELSE SelectSeq(data[kind], InRange)

\* The rows a file holds: one per record, keyed by the header, each field
\* as it was written.
StoredRows(f) == [i \in 1..Len(f.rows) |-> zip_dict(f.header, f.rows[i])]

\* C16: load() raises nothing, in any state, and leaves the table's rows
\* equal to the rows its file holds (none when there is no file),
\* whatever the table held before; a second load() leaves the same rows;
\* the file, the other tables and the registry stay as they were.
C16_LoadReplacesRows ==
    [][ret'.op = "load"
       => LET k == ret'.params[1]
          IN  /\ ret'.exc = "none"
              /\ data'[k] = StoredRows(file[k])
              /\ data'[k] = load(file'[k])
              /\ ~file[k].exists => data'[k] = <<>>
              /\ \A other \in Kinds \ {k} : data'[other] = data[other]
              /\ file' = file /\ tables' = tables]_vars

\* C17: an insert whose id is the id of no row of the table succeeds.
\* Afterwards the table's rows are the rows before, in their order,
\* followed by the new row, and the table's file holds one record per row
\* of the table, in order, under the schema's header, with the row's value
\* in every column the row has: the whole table is written, not the new
\* row only.  The other tables, their files and the registry are as they
\* were.
C17_FreshInsertAppends ==
    [][(/\ ret'.op = "insert" /\ Registered(ret'.params[1])
        /\ \A row \in Rows(data[tables[ret'.params[1]]]) :
              row["id"] # EntryOf(tables[ret'.params[1]], ret'.params[2])["id"])
       => LET k == tables[ret'.params[1]]
              entry == EntryOf(k, ret'.params[2])
              f == file'[k]
          IN  /\ ret'.exc = "none"
              /\ data'[k] = Append(data[k], entry)
              /\ f.exists /\ f.header = ATTRS(k)
              /\ Len(f.rows) = Len(data'[k])
              /\ \A i \in 1..Len(f.rows) : \A j \in 1..Len(ATTRS(k)) :
                    f.rows[i][j] = IF ATTRS(k)[j] \in DOMAIN data'[k][i]
                                   THEN data'[k][i][ATTRS(k)[j]] ELSE <<>>
              /\ \A other \in Kinds \ {k} :
                    data'[other] = data[other] /\ file'[other] = file[other]
              /\ tables' = tables]_vars

\* A second row, with a new id, inserted after the first.
C17_Witness ==
    /\ ret.op = "insert" /\ ret.exc = "none" /\ Registered(ret.params[1])
    /\ LET k == tables[ret.params[1]]
       IN  /\ Len(data[k]) = 2 /\ Len(file[k].rows) = 2
           /\ data[k][2] = EntryOf(k, ret.params[2])
           /\ data[k][1]["id"] # data[k][2]["id"]

\* C18: select, join and aggregate, whether they return or fail, leave the
\* registry, the rows of every table (the names of their fields included)
\* and every file as they were.
C18_QueriesAreReadOnly ==
    [][ret'.op \in {"select", "join", "aggregate"}
       => tables' = tables /\ data' = data /\ file' = file]_vars

\* A join that returned namespaced rows, the tables' rows keeping the
\* field names of their schemas.
C18_Witness ==
    /\ ret.op = "join" /\ ret.exc = "none" /\ ret.value # <<>>
    /\ \A row \in Rows(ret.value) : "employees.id" \in DOMAIN row
    /\ \A row \in Rows(data["Employee"]) : "id" \in DOMAIN row

\* C19: every Database() returns the one instance of the class; only the
\* first makes it, with no table registered, and a later one leaves the
\* registered tables registered.  register_table(name, table) sets the
\* entry of the name to the table, replacing an earlier one, and leaves
\* the entries of the other names, the rows and the files as they were.
\* insert, select, join and aggregate on a name act on the table that is
\* the name's entry, the last one registered: an insert changes the rows
\* of that table only, and the calls return what that table's rows give.
C19_SingleRegistry ==
    [][/\ ret'.op = "Database"
          => /\ ret'.exc = "none" /\ ret'.value = instances'["Database"]
             /\ IF HasDatabase
                THEN /\ ret'.value = instances["Database"]
                     /\ instances' = instances /\ tables' = tables
                ELSE tables' = <<>>
       /\ ret'.op = "register_table"
          => LET name == ret'.params[1]
             IN  /\ DOMAIN tables' = DOMAIN tables \cup {name}
                 /\ tables'[name] = ret'.params[2]
                 /\ \A other \in DOMAIN tables \ {name} : tables'[other] = tables[other]
                 /\ data' = data /\ file' = file /\ instances' = instances
       /\ (ret'.op = "insert" /\ Registered(ret'.params[1]))
          => LET k == tables[ret'.params[1]]
                 r == Table_insert(k, data[k], file[k], ret'.params[2], "ok")
             IN  /\ ret'.exc = r.err.exc /\ ret'.msg = r.err.msg
                 /\ data' = [data EXCEPT ![k] = r.rows]
                 /\ file' = [file EXCEPT ![k] = r.file]
       /\ (ret'.op = "select" /\ Registered(ret'.params[1]))
          => LET k == tables[ret'.params[1]]
                 r == Table_select(k, data[k], ret'.params[2])
             IN  ret'.exc = r.err.exc /\ ret'.msg = r.err.msg /\ ret'.value = r.value
       /\ ret'.op = "join"
          => LET r == Database_join(tables, data, ret'.params[1], ret'.params[2])
             IN  ret'.exc = r.err.exc /\ ret'.msg = r.err.msg /\ ret'.value = r.value
       /\ ret'.op = "aggregate"
          => LET r == Database_aggregate(tables, data, ret'.params[1], ret'.params[2],
                                         ret'.params[3])
             IN  ret'.exc = r.err.exc /\ ret'.msg = r.err.msg /\ ret'.value = r.value
       /\ ret'.op \in {"insert", "select", "join", "aggregate"}
          => tables' = tables /\ instances' = instances]_vars

\* A later Database() that finds the name "employees" registered with the
\* departments table, which holds the row inserted under that name.
C19_Witness ==
    /\ ret.op = "Database" /\ HasDatabase
    /\ Registered("employees") /\ tables["employees"] = "Department"
    /\ EntryOf("Department", E1) \in Rows(data["Department"])

====
